---- MODULE Spec2Model ----
(***************************************************************************)
(* LocalDatabase: a query layer over IndexedDB.  The model follows the     *)
(* schema-driven version of the library (ColumnSchema / TableSchema /      *)
(* DatabaseSchema / LocalDatabase with init, upgrade, add, select and      *)
(* delete).  The IndexedDB engine is modelled at its interface: object     *)
(* stores with secondary indexes, key ranges, requests and transactions    *)
(* that the engine runs in the order they were created.                    *)
(***************************************************************************)
EXTENDS Integers, Sequences, FiniteSets, TLC

\* ------------------------------------------------------------------ bounds
MaxKey == 2      \* primary keys are 1..MaxKey
MaxAge == 2      \* values of the numeric column are 1..MaxAge
MaxCalls == 2    \* API calls made in one behaviour of Spec

Keys == 1..MaxKey
Ages == 1..MaxAge
Names == {"Doe", "Gilmore"}

\* JavaScript's undefined, once for numeric slots and once for string slots
Undefined == 0
UndefinedStr == "undefined"

\* ------------------------------------------------------------ schema model
ColumnSchema(name, options) == [name |-> name, options |-> options]

TableSchema(name, keyColumn, otherColumns, autoIncrement) ==
    [name |-> name, keyColumn |-> keyColumn,
     otherColumns |-> otherColumns, autoIncrement |-> autoIncrement]

\* the constructor without the list of names and the map
DatabaseSchemaBare(name, tables) ==
    [name |-> name, tables |-> tables, tableNames |-> <<>>, tableMap |-> <<>>]

\* the constructor pushes every table's name and maps the name to the table;
\* a later table of the same name overwrites the map entry of an earlier one
DatabaseSchema(name, tables) ==
    [name |-> name,
     tables |-> tables,
     tableNames |-> [i \in 1..Len(tables) |-> tables[i].name],
     tableMap |-> [n \in {tables[i].name : i \in 1..Len(tables)} |->
                     LET last == CHOOSE i \in 1..Len(tables) :
                                    /\ tables[i].name = n
                                    /\ \A j \in 1..Len(tables) :
                                          tables[j].name = n => j <= i
                     IN tables[last]]]

DefaultOptions == [unique |-> FALSE, multiEntry |-> FALSE]

PeopleTable ==
    TableSchema("People",
                ColumnSchema("id", [unique |-> TRUE, multiEntry |-> FALSE]),
                <<ColumnSchema("age", DefaultOptions),
                  ColumnSchema("name", DefaultOptions)>>,
                FALSE)

dbSchema == DatabaseSchema("MyDatabase", <<PeopleTable>>)

\* static schema = null
NullSchema == DatabaseSchema("", <<>>)

PetsTable ==
    TableSchema("Pets",
                ColumnSchema("id", [unique |-> TRUE, multiEntry |-> FALSE]),
                <<ColumnSchema("age", DefaultOptions)>>,
                TRUE)

\* the People table with a multiEntry index over the array property tags
TaggedTable ==
    TableSchema("People",
                ColumnSchema("id", [unique |-> TRUE, multiEntry |-> FALSE]),
                <<ColumnSchema("age", DefaultOptions),
                  ColumnSchema("name", DefaultOptions),
                  ColumnSchema("tags", [unique |-> FALSE, multiEntry |-> TRUE])>>,
                FALSE)

taggedSchema == DatabaseSchema("MyDatabase", <<TaggedTable>>)

\* a second table that is named People
PeopleByName ==
    TableSchema("People", ColumnSchema("name", DefaultOptions), <<>>, FALSE)

\* a column object with its identity: the objects of two `new` expressions
\* differ in ref, so equality of these records is JavaScript's identity
ColumnObject(ref, name) ==
    [ref |-> ref, name |-> name, options |-> DefaultOptions]

\* no key column given (undefined)
NoColumn == [ref |-> 0, name |-> "", options |-> DefaultOptions]

Elements(array) == {array[i] : i \in 1..Len(array)}

\* the error the Table constructor throws, or "none"
TableSchemaThrows(name, keyColumn) ==
    IF name = "" THEN "NoName"
    ELSE IF keyColumn = NoColumn THEN "NoKeyColumn"
    ELSE "none"

\* the test without the count of distinct entries
TableSchemaWarnsKeyOnly(keyColumn, otherColumns) ==
    \E i \in 1..Len(otherColumns) : otherColumns[i] = keyColumn

\* the constructor's test for its console.warn, on the column objects
TableSchemaWarns(keyColumn, otherColumns) ==
    \/ \E i \in 1..Len(otherColumns) : otherColumns[i] = keyColumn
    \/ Cardinality(Elements(otherColumns)) # Len(otherColumns)

\* new Table(...): the error thrown, whether it warned, and the object that
\* the expression yields (none when it threw)
NewTableSchema(name, keyColumn, otherColumns, autoIncrement) ==
    [args |-> <<name, keyColumn, otherColumns, autoIncrement>>,
     error |-> TableSchemaThrows(name, keyColumn),
     warned |-> /\ TableSchemaThrows(name, keyColumn) = "none"
                /\ TableSchemaWarns(keyColumn, otherColumns),
     table |-> IF TableSchemaThrows(name, keyColumn) = "none"
                 THEN <<TableSchema(name, keyColumn, otherColumns,
                                    autoIncrement)>>
                 ELSE <<>>]

\* ------------------------------------------------------------------- rows
AllRows == [id : Keys, age : Ages, name : Names]

\* a row object that stands for "no object" in calls that carry none
NoObject == [id |-> Undefined, age |-> Undefined, name |-> UndefinedStr]

IsNumCol(col) == col \in {"age", "id", "tags"}

Undef(col) == IF IsNumCol(col) THEN Undefined ELSE UndefinedStr

\* entry[keyColumn], row[column]
RowField(row, col) ==
    IF col = "id" THEN row.id
    ELSE IF col = "age" THEN row.age
    ELSE row.name

\* the engine orders string keys; numbers order as themselves
KeyRank(row, col) ==
    IF IsNumCol(col) THEN RowField(row, col)
    ELSE IF RowField(row, col) = "Doe" THEN 1 ELSE 2

\* ---------------------------------------------------------- array helpers
Includes(array, x) == \E i \in 1..Len(array) : array[i] = x

_isPrimitive(entry) == entry.t = "prim"

\* JSON.stringify of a row: the properties in the order the store holds them
JSON_stringify(row) ==
    <<"{", "id", row.id, "age", row.age, "name", row.name, "}">>

JSON_parse(str) == [id |-> str[3], age |-> str[5], name |-> str[7]]

_stringifyArrayElements(array) ==
    [i \in 1..Len(array) |-> JSON_stringify(array[i])]

_parseArrayElements(array) ==
    [i \in 1..Len(array) |-> JSON_parse(array[i])]

\* _intersect that keeps every element of arrayToMerge
_intersectUnfiltered(baseArray, arrayToMerge) == arrayToMerge

\* the base array whatever the array to merge holds
_intersectKeepsBase(baseArray, arrayToMerge) == baseArray

_intersect(baseArray, arrayToMerge) ==
    LET inBase(entry) == Includes(baseArray, entry)
    IN SelectSeq(arrayToMerge, inBase)

\* _difference that removes nothing
_differenceNothing(baseArray, arrayToCompare) == baseArray

_difference(baseArray, arrayToCompare) ==
    LET notIn(entry) == ~Includes(arrayToCompare, entry)
    IN SelectSeq(baseArray, notIn)

\* reduce over the batches: the first batch stringified, then every later
\* batch stringified and intersected with the accumulation
RECURSIVE IntersectFrom(_, _, _)
IntersectFrom(arrayOfArrays, i, accumulation) ==
    IF i > Len(arrayOfArrays) THEN accumulation
    ELSE IntersectFrom(arrayOfArrays, i + 1,
             _intersect(accumulation,
                        _stringifyArrayElements(arrayOfArrays[i])))

\* the first array alone, stringified
stringifyFirstArray(arrayOfArrays) ==
    _stringifyArrayElements(arrayOfArrays[1])

intersectAndStringifyArrayOfArrays(arrayOfArrays) ==
    IntersectFrom(arrayOfArrays, 2, _stringifyArrayElements(arrayOfArrays[1]))

\* ------------------------------------------------------------- key ranges
\* A key range of the engine.  kind "only" is a single key, "all" is the
\* null query (no restriction).
KeyRange(kind, lo, hi, loOpen, hiOpen) ==
    [kind |-> kind, lo |-> lo, hi |-> hi, loOpen |-> loOpen, hiOpen |-> hiOpen]

Thrown(name) == [err |-> name, range |-> KeyRange("none", 0, 0, FALSE, FALSE)]
Made(range) == [err |-> "none", range |-> range]

\* IDBKeyRange.bound: an invalid key, lower > upper, or lower = upper with an
\* open end is a DataError
IDBKeyRange_bound(lower, upper, lowerOpen, upperOpen) ==
    IF lower = Undefined \/ upper = Undefined THEN Thrown("DataError")
    ELSE IF lower > upper \/ (lower = upper /\ (lowerOpen \/ upperOpen))
         THEN Thrown("DataError")
    ELSE Made(KeyRange("bound", lower, upper, lowerOpen, upperOpen))

\* IDBKeyRange.upperBound / lowerBound: undefined is no valid key
IDBKeyRange_upperBound(upper, open) ==
    IF upper = Undefined THEN Thrown("DataError")
    ELSE Made(KeyRange("upper", Undefined, upper, TRUE, open))

IDBKeyRange_lowerBound(lower, open) ==
    IF lower = Undefined THEN Thrown("DataError")
    ELSE Made(KeyRange("lower", lower, Undefined, open, TRUE))

\* does the key of `row` in index `col` lie in `range`
InRange(range, col, row) ==
    LET v == RowField(row, col) IN
    CASE range.kind = "all" -> TRUE
      [] range.kind = "only" -> v = range.lo
      [] range.kind = "bound" ->
            /\ (IF range.loOpen THEN v > range.lo ELSE v >= range.lo)
            /\ (IF range.hiOpen THEN v < range.hi ELSE v <= range.hi)
      [] range.kind = "lower" ->
            (IF range.loOpen THEN v > range.lo ELSE v >= range.lo)
      [] range.kind = "upper" ->
            (IF range.hiOpen THEN v < range.hi ELSE v <= range.hi)
      [] OTHER -> FALSE

\* rows in index order: by index key, then by primary key
RECURSIVE InIndexOrder(_, _)
InIndexOrder(rows, col) ==
    IF rows = {} THEN <<>>
    ELSE LET first == CHOOSE r \in rows : \A o \in rows :
                         \/ KeyRank(r, col) < KeyRank(o, col)
                         \/ (KeyRank(r, col) = KeyRank(o, col) /\ r.id <= o.id)
         IN <<first>> \o InIndexOrder(rows \ {first}, col)

\* index.getAll(query) on the rows of an object store
getAll(rows, col, range) ==
    InIndexOrder({r \in rows : InRange(range, col, r)}, col)

\* Every row carries the array tags = [1, ..., age], which JSON.stringify
\* writes after the other properties; as its value follows from age the
\* model does not store it.  A multiEntry index holds one record per element
\* of the array, each referring to the row.
TagsOf(row) == 1..row.age

\* the rows of the index records whose key is k or more, in index order
RECURSIVE RecordsFrom(_, _, _)
RecordsFrom(rows, range, k) ==
    IF k > MaxAge THEN <<>>
    ELSE InIndexOrder({r \in rows : /\ k \in TagsOf(r)
                                    /\ InRange(range, "age", [r EXCEPT !.age = k])},
                      "id")
         \o RecordsFrom(rows, range, k + 1)

\* index.getAll(query) on a multiEntry index over tags: a row is delivered
\* once for each of its index records that lies in the range
getAllMultiEntry(rows, range) == RecordsFrom(rows, range, 1)

\* ------------------------------------------------------- predicate parser
Entry(t, v, o) == [t |-> t, v |-> v, o |-> o]

OpObject(gt, gte, lt, lte, ne) ==
    [gt |-> gt, gte |-> gte, lt |-> lt, lte |-> lte, ne |-> ne]

Max(a, b) == IF a >= b THEN a ELSE b
Min(a, b) == IF a <= b THEN a ELSE b

Clause(col, range) == [col |-> col, range |-> range]

Parsed(err, add, sub) == [err |-> err, additive |-> add, subtractive |-> sub]

\* the highest greater-than value and the lowest less-than value
greaterThanOf(o, U) ==
    IF o.gt # U /\ o.gte # U THEN Max(o.gt, o.gte)
    ELSE IF o.gt # U THEN o.gt ELSE o.gte

lessThanOf(o, U) ==
    IF o.lt # U /\ o.lte # U THEN Min(o.lt, o.lte)
    ELSE IF o.lt # U THEN o.lt ELSE o.lte

\* the range pushed for an operator object: bound, upperBound or lowerBound
\* the parse of an operator object with the open flags of a range not negated
RangeOfObjectFlipped(o, U) ==
    LET greaterThan == greaterThanOf(o, U)
        isGte == (greaterThan = o.gte)
        lessThan == lessThanOf(o, U)
        isLte == (lessThan = o.lte)
    IN IF lessThan # U /\ greaterThan # U
         THEN IDBKeyRange_bound(greaterThan, lessThan, isGte, isLte)
       ELSE IF lessThan # U /\ greaterThan = U
         THEN IDBKeyRange_upperBound(o.lt, ~isLte)
       ELSE IF lessThan = U /\ greaterThan # U
         THEN IDBKeyRange_lowerBound(o.gt, ~isGte)
       ELSE Thrown("noRange")

RangeOfObject(o, U) ==
    LET greaterThan == greaterThanOf(o, U)
        isGte == (greaterThan = o.gte)
        lessThan == lessThanOf(o, U)
        isLte == (lessThan = o.lte)
    IN IF lessThan # U /\ greaterThan # U
         THEN IDBKeyRange_bound(greaterThan, lessThan, ~isGte, ~isLte)
       ELSE IF lessThan # U /\ greaterThan = U
         THEN IDBKeyRange_upperBound(o.lt, ~isLte)
       ELSE IF lessThan = U /\ greaterThan # U
         THEN IDBKeyRange_lowerBound(o.gt, ~isGte)
       ELSE Thrown("noRange")

\* one iteration of the loop over Object.entries(query)
ParseEntry(col, entry) ==
    LET U == Undef(col) IN
    IF _isPrimitive(entry)
      THEN Parsed("none",
                  <<Clause(col, KeyRange("only", entry.v, entry.v, FALSE, FALSE))>>,
                  <<>>)
    ELSE IF entry.t = "null"
      THEN Parsed("none", <<Clause(col, KeyRange("all", U, U, FALSE, FALSE))>>, <<>>)
    ELSE LET made == RangeOfObject(entry.o, U)
             add == IF made.err = "none" THEN <<Clause(col, made.range)>> ELSE <<>>
             sub == IF entry.o.ne # U
                      THEN <<Clause(col, KeyRange("only", entry.o.ne, entry.o.ne,
                                                  FALSE, FALSE))>>
                      ELSE <<>>
         IN IF made.err \notin {"none", "noRange"}
              THEN Parsed(made.err, <<>>, <<>>)
              ELSE Parsed("none", add, sub)

RECURSIVE ParseFrom(_, _, _, _)
ParseFrom(query, i, add, sub) ==
    IF i > Len(query) THEN Parsed("none", add, sub)
    ELSE LET p == ParseEntry(query[i][1], query[i][2])
         IN IF p.err # "none" THEN Parsed(p.err, <<>>, <<>>)
            ELSE ParseFrom(query, i + 1, add \o p.additive, sub \o p.subtractive)

ParseQuery(query) == ParseFrom(query, 1, <<>>, <<>>)

\* ------------------------------------------------------------------ state
VARIABLES
    instance,     \* LocalDatabase.instance is set (static instance = undefined)
    schema,       \* LocalDatabase.schema
    initState,    \* the open request of init: idle, opening, blocked,
                  \* upgrading, upgraded, open, failed
    initPromise,  \* the promise init returned: none, pending, resolved, rejected
    idb,          \* the engine's object stores: name -> keyPath, indexes, rows
    ops,          \* the API calls made so far, each with its promise
    txns,         \* the engine's transactions, in the order they were created
    micro,        \* promise reactions that are due (the microtask queue)
    built         \* the outcomes of the Table constructions made so far

vars == <<instance, schema, initState, initPromise, idb, ops, txns, micro,
          built>>

NoResult == [defined |-> FALSE, rows |-> <<>>]
RowsResult(rows) == [defined |-> TRUE, rows |-> rows]

\* the promise a request callback settles
Pending == [state |-> "pending", value |-> <<>>, error |-> "none"]
Resolved(value) == [state |-> "resolved", value |-> value, error |-> "none"]
Rejected(error) == [state |-> "rejected", value |-> <<>>, error |-> error]

AllResolved(promises) ==
    \A i \in 1..Len(promises) : promises[i].state = "resolved"
AnyRejected(promises) ==
    \E i \in 1..Len(promises) : promises[i].state = "rejected"
Values(promises) == [i \in 1..Len(promises) |-> promises[i].value]

\* One call of add, select or delete.  status is what the caller sees: threw
\* (synchronously), pending, resolved, rejected.  fault is an error that was
\* thrown or rejected where no handler of the call observes it.
NewOp(kind, table, query, object, upsert, parent) ==
    [kind |-> kind, table |-> table, query |-> query, object |-> object,
     upsert |-> upsert, parent |-> parent,
     status |-> "pending", error |-> "none", fault |-> "none",
     opened |-> 0,
     additive |-> <<>>, subtractive |-> <<>>, addP |-> <<>>, subP |-> <<>>,
     acc |-> <<>>, waiting |-> FALSE, result |-> NoResult, delP |-> <<>>]

Threw(op, error) == [op EXCEPT !.status = "threw", !.error = error]
Reject(op, error) == [op EXCEPT !.status = "rejected", !.error = error]

Txn(op, mode, what, object, key) ==
    [op |-> op, mode |-> mode, what |-> what, object |-> object, key |-> key]

Reaction(kind, op) == [kind |-> kind, op |-> op]

\* instance.transaction(table, mode): refused while the version-change
\* transaction of the upgrade is live, and for a store the database lacks
TransactionError(table) ==
    IF initState \in {"upgrading", "failed"} THEN "InvalidStateError"
    ELSE IF table \notin DOMAIN idb THEN "NotFoundError"
    ELSE "none"

\* the checks without the look-up of the table in the schema
GuardNoLookup(table) ==
    IF ~instance THEN "NotInitialised"
    ELSE IF table = "" THEN "NoTableDefined"
    ELSE "none"

\* the checks with those of the table made first
GuardTableFirst(table) ==
    IF table = "" THEN "NoTableDefined"
    ELSE IF ~Includes(schema.tableNames, table) THEN "MissingTable"
    ELSE IF ~instance THEN "NotInitialised"
    ELSE "none"

\* the checks every call starts with: the error thrown, or "none"
Guard(table) ==
    IF ~instance THEN "NotInitialised"
    ELSE IF table = "" THEN "NoTableDefined"
    ELSE IF ~Includes(schema.tableNames, table) THEN "MissingTable"
    ELSE "none"

\* ------------------------------------------------------------------ select
\* _getIndex inside the promise of one query: a missing index throws, which
\* rejects that promise; otherwise the getAll request is outstanding
getPromisesFromQueryArray(table, queryArray) ==
    [i \in 1..Len(queryArray) |->
        IF queryArray[i].col \in idb[table].indexes
          THEN Pending
          ELSE Rejected("UnknownColumn")]

\* the call once its scans are issued: the clauses, their promises and the
\* two transactions
Issued(op, p, addP, subP) ==
    [op EXCEPT !.additive = p.additive,
               !.subtractive = p.subtractive,
               !.addP = addP,
               !.subP = subP,
               !.opened = 2,
               !.fault = IF AnyRejected(addP) THEN "UnknownColumn" ELSE "none"]

\* the body of the executor, given the parse p of the query and the error te
\* of instance.transaction: a throw in it rejects select's promise
executorBody(op, p, te, table) ==
    IF p.err # "none" THEN Reject(op, p.err)
    ELSE IF te # "none" THEN Reject(op, te)
    ELSE Issued(op, p, getPromisesFromQueryArray(table, p.additive),
                getPromisesFromQueryArray(table, p.subtractive))

\* the executor of select's promise, for call number n: the call as it
\* stands when select returns
selectExecutor(n, table, query, parent) ==
    executorBody(NewOp("select", table, query, NoObject, FALSE, parent),
                 ParseQuery(query), TransactionError(table), table)

\* a single transaction for a select
ScanTxnsOne(n, op) ==
    IF op.opened = 0 THEN <<>>
    ELSE <<Txn(n, "readonly", "additive", NoObject, Undefined)>>

\* the two read-only transactions a select opens
ScanTxns(n, op) ==
    IF op.opened = 0 THEN <<>>
    ELSE <<Txn(n, "readonly", "additive", NoObject, Undefined),
           Txn(n, "readonly", "subtractive", NoObject, Undefined)>>

\* no reaction is due when select returns
ScanReactionsNone(n, op) == <<>>

\* Promise.all of no promise at all is resolved at once
ScanReactions(n, op) ==
    IF op.status = "pending" /\ op.opened > 0 /\ Len(op.addP) = 0
      THEN <<Reaction("additiveThen", n)>> ELSE <<>>

\* select returns: the call is on record, its transactions are queued
selectReturns(n, op) ==
    /\ micro = <<>>
    /\ ops' = Append(ops, op)
    /\ txns' = txns \o ScanTxns(n, op)
    /\ micro' = ScanReactions(n, op)
    /\ UNCHANGED <<built, instance, schema, initState, initPromise, idb>>

\* LocalDatabase.select
SelectCall(table, query) ==
    IF Guard(table) # "none"
      THEN selectReturns(Len(ops) + 1,
               Threw(NewOp("select", table, query, NoObject, FALSE, 0), Guard(table)))
      ELSE selectReturns(Len(ops) + 1, selectExecutor(Len(ops) + 1, table, query, 0))

\* the reaction of whoever waits on select's promise: a delete that ran it
ParentReaction(op) ==
    IF op.parent = 0 THEN <<>> ELSE <<Reaction("deleteThen", op.parent)>>

\* Promise.all(additivePromises).then(additiveResult => ...)
AdditiveThen ==
    /\ micro # <<>>
    /\ Head(micro).kind = "additiveThen"
    /\ LET n == Head(micro).op
           op == ops[n]
           additiveResult == Values(op.addP)
       IN IF Len(op.subtractive) = 0 /\ Len(additiveResult) <= 1
            THEN /\ ops' = [ops EXCEPT
                              ![n].status = "resolved",
                              ![n].result = IF Len(additiveResult) = 0
                                              THEN NoResult
                                              ELSE RowsResult(additiveResult[1])]
                 /\ micro' = Tail(micro) \o ParentReaction(op)
          ELSE IF Len(additiveResult) = 0
            THEN /\ ops' = [ops EXCEPT ![n].fault = "TypeError"]
                 /\ micro' = Tail(micro)
          ELSE IF Len(op.subP) = 0
            THEN /\ ops' = [ops EXCEPT
                              ![n].acc =
                                  intersectAndStringifyArrayOfArrays(additiveResult),
                              ![n].status = "resolved",
                              ![n].result = RowsResult(_parseArrayElements(
                                  intersectAndStringifyArrayOfArrays(additiveResult)))]
                 /\ micro' = Tail(micro) \o ParentReaction(op)
          ELSE /\ ops' = [ops EXCEPT
                            ![n].acc =
                                intersectAndStringifyArrayOfArrays(additiveResult),
                            ![n].waiting = ~AnyRejected(op.subP),
                            ![n].fault = IF AnyRejected(op.subP)
                                           THEN "UnknownColumn" ELSE op.fault]
               /\ micro' = Tail(micro) \o
                           (IF AllResolved(op.subP)
                              THEN <<Reaction("subtractiveThen", n)>> ELSE <<>>)
    /\ UNCHANGED <<built, instance, schema, initState, initPromise, idb, txns>>

\* Promise.all(subtractivePromises).then(subtractiveResult => ...)
SubtractiveThen ==
    /\ micro # <<>>
    /\ Head(micro).kind = "subtractiveThen"
    /\ LET n == Head(micro).op
           op == ops[n]
           stringifiedSubtractiveResults ==
               intersectAndStringifyArrayOfArrays(Values(op.subP))
           stringifiedMergedResults ==
               _difference(op.acc, stringifiedSubtractiveResults)
       IN /\ ops' = [ops EXCEPT
                       ![n].status = "resolved",
                       ![n].waiting = FALSE,
                       ![n].result = RowsResult(
                           _parseArrayElements(stringifiedMergedResults))]
          /\ micro' = Tail(micro) \o ParentReaction(op)
    /\ UNCHANGED <<built, instance, schema, initState, initPromise, idb, txns>>

\* ------------------------------------------------------------------ engine
\* the requests of a scan transaction succeed with the rows of their range
Scanned(promises, queries, store) ==
    [i \in 1..Len(promises) |->
        IF promises[i].state = "pending"
          THEN Resolved(IF queries[i].col \in store.multiEntry
                          THEN getAllMultiEntry(store.rows, queries[i].range)
                          ELSE getAll(store.rows, queries[i].col,
                                      queries[i].range))
          ELSE promises[i]]

RunAdditiveScan ==
    /\ micro = <<>>
    /\ txns # <<>>
    /\ Head(txns).what = "additive"
    /\ LET n == Head(txns).op
           done == Scanned(ops[n].addP, ops[n].additive, idb[ops[n].table])
       IN /\ ops' = [ops EXCEPT ![n].addP = done]
          /\ micro' = IF AllResolved(done) /\ Len(done) > 0
                        THEN <<Reaction("additiveThen", n)>> ELSE <<>>
    /\ txns' = Tail(txns)
    /\ UNCHANGED <<built, instance, schema, initState, initPromise, idb>>

RunSubtractiveScan ==
    /\ micro = <<>>
    /\ txns # <<>>
    /\ Head(txns).what = "subtractive"
    /\ LET n == Head(txns).op
           done == Scanned(ops[n].subP, ops[n].subtractive, idb[ops[n].table])
       IN /\ ops' = [ops EXCEPT ![n].subP = done]
          /\ micro' = IF ops[n].waiting /\ AllResolved(done)
                        THEN <<Reaction("subtractiveThen", n)>> ELSE <<>>
    /\ txns' = Tail(txns)
    /\ UNCHANGED <<built, instance, schema, initState, initPromise, idb>>

\* --------------------------------------------------------------------- add
\* LocalDatabase.add
AddCall(table, object, upsert) ==
    LET n == Len(ops) + 1
        op == NewOp("add", table, <<>>, object, upsert, 0)
        opens == Guard(table) = "none" /\ TransactionError(table) = "none"
    IN /\ micro = <<>>
       /\ ops' = Append(ops,
                    IF Guard(table) # "none" THEN Threw(op, Guard(table))
                    ELSE IF TransactionError(table) # "none"
                      THEN Reject(op, TransactionError(table))
                    ELSE [op EXCEPT !.opened = 1])
       /\ txns' = IF opens
                    THEN Append(txns, Txn(n, "readwrite",
                                          IF upsert THEN "put" ELSE "add",
                                          object, Undefined))
                    ELSE txns
       /\ UNCHANGED <<built, instance, schema, initState, initPromise, idb, micro>>

\* the adds a multiAdd made
Children(all, p) ==
    {n \in 1..Len(all) : all[n].kind = "add" /\ all[n].parent = p}

\* Promise.all that is fulfilled as soon as one add is
PromiseAllAny(all, p) ==
    IF p = 0 \/ all[p].status # "pending" THEN all
    ELSE IF \E n \in Children(all, p) : all[n].status = "resolved"
      THEN [all EXCEPT ![p].status = "resolved"]
    ELSE all

\* Promise.all that takes no notice of a rejected add
PromiseAllSilent(all, p) ==
    IF p = 0 \/ all[p].status # "pending" THEN all
    ELSE IF \A n \in Children(all, p) : all[n].status = "resolved"
      THEN [all EXCEPT ![p].status = "resolved"]
    ELSE all

\* Promise.all over the promises of the adds of multiAdd p, looked at when
\* one of them has settled: rejected with the first rejection, fulfilled
\* when all are
PromiseAll(all, p) ==
    IF p = 0 \/ all[p].status # "pending" THEN all
    ELSE IF \E n \in Children(all, p) : all[n].status = "rejected"
      THEN [all EXCEPT ![p] = Reject(@,
               all[CHOOSE n \in Children(all, p) :
                       all[n].status = "rejected"].error)]
    ELSE IF \A n \in Children(all, p) : all[n].status = "resolved"
      THEN [all EXCEPT ![p].status = "resolved"]
    ELSE all

\* whoever waits on the promise of an add: the multiAdd that made it
AllReaction(parent) ==
    IF parent = 0 THEN <<>> ELSE <<Reaction("allThen", parent)>>

\* LocalDatabase.multiAdd: one add per object, each with its own promise and
\* transaction; a check that fails in the first add is thrown out of multiAdd
MultiAddCall(table, objects, upsert) ==
    LET m == Len(ops) + 1
        op == NewOp("multiAdd", table, <<>>, NoObject, upsert, 0)
        te == TransactionError(table)
        adds == [i \in 1..Len(objects) |->
                    IF te # "none"
                      THEN Reject(NewOp("add", table, <<>>, objects[i], upsert, m), te)
                      ELSE [NewOp("add", table, <<>>, objects[i], upsert, m)
                               EXCEPT !.opened = 1]]
    IN /\ micro = <<>>
       /\ ops' = IF Len(objects) = 0
                   THEN Append(ops, [op EXCEPT !.status = "resolved"])
                 ELSE IF Guard(table) # "none"
                   THEN Append(ops, Threw(op, Guard(table)))
                 ELSE IF te # "none"
                   THEN ops \o <<Reject(op, te)>> \o adds
                 ELSE ops \o <<op>> \o adds
       /\ txns' = IF Len(objects) > 0 /\ Guard(table) = "none" /\ te = "none"
                    THEN txns \o [i \in 1..Len(objects) |->
                                    Txn(m + i, "readwrite",
                                        IF upsert THEN "put" ELSE "add",
                                        objects[i], Undefined)]
                    ELSE txns
       /\ UNCHANGED <<built, instance, schema, initState, initPromise, idb, micro>>

\* the write transaction with put leaving the old row of the key in place
RunWriteKeepsOld ==
    /\ micro = <<>>
    /\ txns # <<>>
    /\ Head(txns).what \in {"put", "add"}
    /\ LET t == Head(txns)
           table == ops[t.op].table
           rows == idb[table].rows
           collides == \E r \in rows : r.id = t.object.id
       IN IF t.what = "add" /\ collides
            THEN /\ ops' = [ops EXCEPT ![t.op] = Reject(@, "ConstraintError")]
                 /\ idb' = idb
            ELSE /\ ops' = [ops EXCEPT ![t.op].status = "resolved"]
                 /\ idb' = [idb EXCEPT ![table].rows =
                               rows \cup {t.object}]
    /\ txns' = Tail(txns)
    /\ micro' = AllReaction(ops[Head(txns).op].parent)
    /\ UNCHANGED <<built, instance, schema, initState, initPromise>>

\* the write transaction with add failing only on an identical row
RunWriteAddOverwrites ==
    /\ micro = <<>>
    /\ txns # <<>>
    /\ Head(txns).what \in {"put", "add"}
    /\ LET t == Head(txns)
           table == ops[t.op].table
           rows == idb[table].rows
           collides == \E r \in rows : r.id = t.object.id
       IN IF t.what = "add" /\ collides /\ t.object \in rows
            THEN /\ ops' = [ops EXCEPT ![t.op] = Reject(@, "ConstraintError")]
                 /\ idb' = idb
            ELSE /\ ops' = [ops EXCEPT ![t.op].status = "resolved"]
                 /\ idb' = [idb EXCEPT ![table].rows =
                               {r \in rows : r.id # t.object.id} \cup {t.object}]
    /\ txns' = Tail(txns)
    /\ micro' = AllReaction(ops[Head(txns).op].parent)
    /\ UNCHANGED <<built, instance, schema, initState, initPromise>>

\* the write transaction of an add: put overwrites the row of the key, add
\* fails on an existing key, which aborts the transaction (txn.onerror);
\* the reaction of the multiAdd that made the add is then due
RunWrite ==
    /\ micro = <<>>
    /\ txns # <<>>
    /\ Head(txns).what \in {"put", "add"}
    /\ LET t == Head(txns)
           table == ops[t.op].table
           rows == idb[table].rows
           collides == \E r \in rows : r.id = t.object.id
       IN IF t.what = "add" /\ collides
            THEN /\ ops' = [ops EXCEPT ![t.op] = Reject(@, "ConstraintError")]
                 /\ idb' = idb
            ELSE /\ ops' = [ops EXCEPT ![t.op].status = "resolved"]
                 /\ idb' = [idb EXCEPT ![table].rows =
                               {r \in rows : r.id # t.object.id} \cup {t.object}]
    /\ txns' = Tail(txns)
    /\ micro' = AllReaction(ops[Head(txns).op].parent)
    /\ UNCHANGED <<built, instance, schema, initState, initPromise>>

\* the reaction of Promise.all in multiAdd to the settling of one add
MultiAddThen ==
    /\ micro # <<>>
    /\ Head(micro).kind = "allThen"
    /\ ops' = PromiseAll(ops, Head(micro).op)
    /\ micro' = Tail(micro)
    /\ UNCHANGED <<built, instance, schema, initState, initPromise, idb, txns>>

\* ------------------------------------------------------------------ delete
\* delete returns: the call d and the select it made, call d + 1, are on
\* record; a select that was rejected at once is a failure nobody handles
deleteReturns(d, op, child) ==
    /\ micro = <<>>
    /\ ops' = ops \o <<[op EXCEPT !.fault = IF child.status = "rejected"
                                              THEN child.error ELSE "none"],
                       child>>
    /\ txns' = txns \o ScanTxns(d + 1, child)
    /\ micro' = ScanReactions(d + 1, child)
    /\ UNCHANGED <<built, instance, schema, initState, initPromise, idb>>

\* LocalDatabase.delete: the select it runs is a call of its own (the next
\* call number), whose promise the delete waits on
DeleteCall(table, query) ==
    IF Guard(table) # "none"
      THEN /\ micro = <<>>
           /\ ops' = Append(ops, Threw(NewOp("delete", table, query, NoObject,
                                             FALSE, 0), Guard(table)))
           /\ UNCHANGED <<built, instance, schema, initState, initPromise, idb, txns, micro>>
      ELSE deleteReturns(Len(ops) + 1,
                         NewOp("delete", table, query, NoObject, FALSE, 0),
                         selectExecutor(Len(ops) + 2, table, query, Len(ops) + 1))

\* LocalDatabase.select(table, query).then(results => ...) inside delete
DeleteThen ==
    /\ micro # <<>>
    /\ Head(micro).kind = "deleteThen"
    /\ LET d == Head(micro).op
           op == ops[d]
           results == ops[d + 1].result
           tableSchema == schema.tableMap[op.table]
           keyColumn == tableSchema.keyColumn.name
           keyArray == [i \in 1..Len(results.rows) |->
                           RowField(results.rows[i], keyColumn)]
           te == TransactionError(tableSchema.name)
       IN IF ~results.defined
            THEN /\ ops' = [ops EXCEPT ![d].fault = "TypeError"]
                 /\ txns' = txns
          ELSE IF Len(keyArray) = 0
            THEN /\ ops' = [ops EXCEPT ![d].status = "resolved"]
                 /\ txns' = txns
          ELSE IF te # "none"
            THEN /\ ops' = [ops EXCEPT
                              ![d].fault = te,
                              ![d].delP = [i \in 1..Len(keyArray) |-> Rejected(te)]]
                 /\ txns' = txns
          ELSE /\ ops' = [ops EXCEPT
                            ![d].delP = [i \in 1..Len(keyArray) |-> Pending],
                            ![d].opened = Len(keyArray)]
               /\ txns' = txns \o
                          [i \in 1..Len(keyArray) |->
                              Txn(d, "readwrite", "delete", NoObject, keyArray[i])]
    /\ micro' = Tail(micro)
    /\ UNCHANGED <<built, instance, schema, initState, initPromise, idb>>

\* one delete transaction of a delete: the row of the key goes, delSuccess
\* settles its promise, and the delete resolves with the last of them
RunDelete ==
    /\ micro = <<>>
    /\ txns # <<>>
    /\ Head(txns).what = "delete"
    /\ LET t == Head(txns)
           op == ops[t.op]
           i == CHOOSE j \in 1..Len(op.delP) :
                   /\ op.delP[j].state = "pending"
                   /\ \A k \in 1..(j - 1) : op.delP[k].state # "pending"
           done == [op.delP EXCEPT ![i] = Resolved(<<>>)]
       IN /\ ops' = [ops EXCEPT ![t.op].delP = done,
                                ![t.op].status =
                                    IF AllResolved(done) THEN "resolved"
                                    ELSE op.status]
          /\ idb' = [idb EXCEPT ![op.table].rows =
                        {r \in idb[op.table].rows : r.id # t.key}]
    /\ txns' = Tail(txns)
    /\ UNCHANGED <<built, instance, schema, initState, initPromise, micro>>

\* -------------------------------------------------------------------- init
\* one object store per table, one index per other column
upgrade(s) ==
    [n \in {s.tables[i].name : i \in 1..Len(s.tables)} |->
        LET table == s.tableMap[n]
        IN [keyPath |-> table.keyColumn.name,
            autoIncrement |-> table.autoIncrement,
            indexes |-> {table.otherColumns[j].name :
                            j \in 1..Len(table.otherColumns)},
            multiEntry |-> {table.otherColumns[j].name :
                               j \in {i \in 1..Len(table.otherColumns) :
                                         table.otherColumns[i].options.multiEntry}},
            rows |-> {}]]

\* LocalDatabase.init: the schema is bound, the database of its name is
\* deleted and the open request is made
InitWith(s) ==
    /\ micro = <<>>
    /\ initState = "idle"
    /\ schema' = s
    /\ initState' = "opening"
    /\ initPromise' = "pending"
    /\ idb' = <<>>
    /\ UNCHANGED <<built, instance, ops, txns, micro>>

InitCall == InitWith(dbSchema)

\* createObjectStore throws for a second store of one name, createIndex for
\* a second index of one name in a store
UpgradeThrows(s) ==
    \/ \E i, j \in 1..Len(s.tables) : i # j /\ s.tables[i].name = s.tables[j].name
    \/ \E i \in 1..Len(s.tables) : \E j, k \in 1..Len(s.tables[i].otherColumns) :
          j # k /\ s.tables[i].otherColumns[j].name
                      = s.tables[i].otherColumns[k].name

\* init called again after an earlier init has settled: as InitCall, with
\* the handle of the earlier connection still bound.  deleteDatabase sends
\* versionchange to that connection, whose onversionchange handler closes it
\* (the caller has no transaction outstanding), and the database is deleted
\* before the open request is served.
InitAgainKeepsDatabase ==
    /\ micro = <<>>
    /\ txns = <<>>
    /\ initState \in {"open", "failed"}
    /\ schema' = dbSchema
    /\ initState' = "opening"
    /\ initPromise' = "pending"
    /\ UNCHANGED <<built, instance, idb, ops, txns, micro>>

InitAgain ==
    /\ micro = <<>>
    /\ txns = <<>>
    /\ initState \in {"open", "failed"}
    /\ schema' = dbSchema
    /\ initState' = "opening"
    /\ initPromise' = "pending"
    /\ idb' = <<>>
    /\ UNCHANGED <<built, instance, ops, txns, micro>>

\* opening.onblocked: the handler logs and throws inside the event handler;
\* neither success nor reject of init's promise is called.  The request
\* stays outstanding and is served when the blocking connection closes.
OpenBlocked ==
    /\ micro = <<>>
    /\ initState = "opening"
    /\ initState' = "blocked"
    /\ UNCHANGED <<built, instance, schema, initPromise, idb, ops, txns, micro>>

\* opening.onupgradeneeded, which the engine fires when no database of the
\* name is stored (or a lower version): the handle is bound and
\* upgrade(schema) runs inside the version-change transaction
\* (a ConstraintError thrown by createObjectStore or createIndex for a name
\* used twice aborts that transaction, and the open request fails)
UpgradeNeeded ==
    /\ micro = <<>>
    /\ initState \in {"opening", "blocked"}
    /\ idb = <<>>
    /\ instance' = TRUE
    /\ IF UpgradeThrows(schema)
         THEN /\ idb' = <<>>
              /\ initState' = "failed"
              /\ initPromise' = "rejected"
         ELSE /\ idb' = upgrade(schema)
              /\ initState' = "upgrading"
              /\ initPromise' = initPromise
    /\ UNCHANGED <<built, schema, ops, txns, micro>>

\* the version-change transaction completes
UpgradeComplete ==
    /\ micro = <<>>
    /\ initState = "upgrading"
    /\ initState' = "upgraded"
    /\ UNCHANGED <<built, instance, schema, initPromise, idb, ops, txns, micro>>

\* opening.onsuccess
OpenSuccess ==
    /\ micro = <<>>
    /\ \/ initState = "upgraded"
       \/ initState \in {"opening", "blocked"} /\ idb # <<>>
    /\ instance' = TRUE
    /\ initState' = "open"
    /\ initPromise' = "resolved"
    /\ UNCHANGED <<built, schema, idb, ops, txns, micro>>

\* opening.onerror
OpenError ==
    /\ micro = <<>>
    /\ initState = "opening"
    /\ initState' = "failed"
    /\ initPromise' = "rejected"
    /\ UNCHANGED <<built, instance, schema, idb, ops, txns, micro>>

\* ---------------------------------------------------- predicate mappings
NumValues == Ages \cup {Undefined}
StrValues == Names \cup {UndefinedStr}

NoNumObject == OpObject(Undefined, Undefined, Undefined, Undefined, Undefined)
NoStrObject == OpObject(UndefinedStr, UndefinedStr, UndefinedStr, UndefinedStr,
                        UndefinedStr)

NumObjects == [gt : NumValues, gte : NumValues, lt : NumValues,
               lte : NumValues, ne : NumValues]

\* operator objects with at most one lower and at most one upper operator
OneSidedObjects ==
    {o \in NumObjects : /\ (o.gt = Undefined \/ o.gte = Undefined)
                        /\ (o.lt = Undefined \/ o.lte = Undefined)}

AgeObjectEntries == {Entry("obj", Undefined, o) : o \in NumObjects}

AgeClauseEntries ==
    {Entry("prim", v, NoNumObject) : v \in Ages}
    \cup {Entry("null", Undefined, NoNumObject)}
    \cup {Entry("obj", Undefined, o) : o \in OneSidedObjects}

NameEntries ==
    {Entry("prim", v, NoStrObject) : v \in Names}
    \cup {Entry("null", UndefinedStr, NoStrObject)}
    \cup {Entry("obj", UndefinedStr, [NoStrObject EXCEPT !.ne = v]) : v \in Names}

\* the part of a predicate mapping for one column: no entry, or one entry
Part(col, entries) == {<<>>} \cup {<<<<col, e>>>> : e \in entries}

\* the stores the table can hold: at most one row per key
Stores ==
    UNION {{ {[id |-> k, age |-> f[k][1], name |-> f[k][2]] : k \in ks} :
               f \in [ks -> Ages \X Names]} : ks \in SUBSET Keys}

\* ------------------------------------------------ select on a fixed store
InitialisedWith(s, rows) ==
    /\ instance = TRUE
    /\ schema = s
    /\ initState = "open"
    /\ initPromise = "resolved"
    /\ idb = [upgrade(s) EXCEPT !["People"].rows = rows]
    /\ ops = <<>>
    /\ txns = <<>>
    /\ micro = <<>>
    /\ built = <<>>

Initialised(rows) == InitialisedWith(dbSchema, rows)

InitQuery == \E rows \in Stores : Initialised(rows)

QueryCall ==
    /\ ops = <<>>
    /\ \E a \in Part("age", AgeClauseEntries), m \in Part("name", NameEntries) :
          SelectCall("People", a \o m)

NextQuery ==
    \/ QueryCall \/ RunAdditiveScan \/ RunSubtractiveScan
    \/ AdditiveThen \/ SubtractiveThen

SpecQuery == InitQuery /\ [][NextQuery]_vars

\* --------------------------- one operator object on the numeric column
InitRange == \E rows \in {S \in Stores : \A r \in S : r.name = "Doe"} :
                Initialised(rows)

RangeCall ==
    /\ ops = <<>>
    /\ \E e \in AgeObjectEntries : SelectCall("People", <<<<"age", e>>>>)

NextRange ==
    \/ RangeCall \/ RunAdditiveScan \/ RunSubtractiveScan
    \/ AdditiveThen \/ SubtractiveThen

SpecRange == InitRange /\ [][NextRange]_vars

\* ------------------------- delete on a fixed store, then the same select
DeleteQueryCall ==
    /\ ops = <<>>
    /\ \E a \in Part("age", AgeClauseEntries), m \in Part("name", NameEntries) :
          DeleteCall("People", a \o m)

\* the caller awaits the delete and selects over the same predicate
SelectAgain ==
    /\ Len(ops) = 2
    /\ ops[1].kind = "delete"
    /\ ops[1].status = "resolved"
    /\ SelectCall("People", ops[1].query)

NextDelete ==
    \/ DeleteQueryCall \/ SelectAgain
    \/ RunAdditiveScan \/ RunSubtractiveScan \/ RunDelete
    \/ AdditiveThen \/ SubtractiveThen \/ DeleteThen

SpecDelete == InitQuery /\ [][NextDelete]_vars

\* ------------------- multiAdd on a fixed store, then a select of all rows
\* the objects given to add and multiAdd
CallRows == {r \in AllRows : r.name = "Doe"}

ObjectLists ==
    {<<>>} \cup {<<o>> : o \in CallRows}
           \cup {<<o, q>> : o \in CallRows, q \in CallRows}

\* a range no key, and no age, lies outside of
AlwaysTrue(col) ==
    <<<<col, Entry("obj", Undefined,
                   [NoNumObject EXCEPT !.lt = Max(MaxKey, MaxAge) + 1])>>>>

MultiCall ==
    /\ ops = <<>>
    /\ \E objects \in ObjectLists, u \in BOOLEAN :
          MultiAddCall("People", objects, u)

\* the caller awaits the multiAdd and selects every row
SelectAll ==
    /\ ops # <<>>
    /\ ops[1].status = "resolved"
    /\ \A n \in 1..Len(ops) : ops[n].kind # "select"
    /\ \E col \in {"id", "age"} : SelectCall("People", AlwaysTrue(col))

NextMulti ==
    \/ MultiCall \/ SelectAll \/ RunWrite \/ MultiAddThen
    \/ RunAdditiveScan \/ RunSubtractiveScan \/ AdditiveThen

SpecMulti == InitQuery /\ [][NextMulti]_vars

\* ------------------------------------------------------- the whole library
GoodTables == {"People"}
BadTables == {"NoSuchTable", ""}

CallAge == {Entry("prim", 1, NoNumObject)}
CallName == {Entry("obj", UndefinedStr, [NoStrObject EXCEPT !.ne = "Doe"])}
CallNickname == {Entry("prim", "x", NoStrObject)}

Calls == Cardinality({i \in 1..Len(ops) : ops[i].parent = 0})

Init ==
    /\ instance = FALSE
    /\ schema = NullSchema
    /\ initState = "idle"
    /\ initPromise = "none"
    /\ idb = <<>>
    /\ ops = <<>>
    /\ txns = <<>>
    /\ micro = <<>>
    /\ built = <<>>

CallAdd ==
    /\ Calls < MaxCalls
    /\ \/ \E t \in GoodTables, o \in CallRows, u \in BOOLEAN : AddCall(t, o, u)
       \/ \E t \in BadTables :
             AddCall(t, CHOOSE o \in CallRows : o.id = 1 /\ o.age = 1, TRUE)

CallSelect ==
    /\ Calls < MaxCalls
    /\ \/ \E t \in GoodTables, a \in Part("age", CallAge),
             m \in Part("name", CallName), k \in Part("nickname", CallNickname) :
             SelectCall(t, a \o m \o k)
       \/ \E t \in BadTables : SelectCall(t, <<>>)

CallDelete ==
    /\ Calls < MaxCalls
    /\ \/ \E t \in GoodTables, a \in Part("age", CallAge),
             m \in Part("name", CallName), k \in Part("nickname", CallNickname) :
             DeleteCall(t, a \o m \o k)
       \/ \E t \in BadTables : DeleteCall(t, <<>>)

Next ==
    \/ InitCall \/ UpgradeNeeded \/ UpgradeComplete \/ OpenSuccess \/ OpenError
    \/ CallAdd \/ CallSelect \/ CallDelete
    \/ RunAdditiveScan \/ RunSubtractiveScan \/ RunWrite \/ RunDelete
    \/ AdditiveThen \/ SubtractiveThen \/ DeleteThen

Spec == Init /\ [][Next]_vars

\* ------------------------- select on a table with a multiEntry index
InitTags == \E rows \in Stores : InitialisedWith(taggedSchema, rows)

TagsCall ==
    /\ ops = <<>>
    /\ \E t \in Part("tags", AgeClauseEntries), m \in Part("name", NameEntries) :
          SelectCall("People", t \o m)

NextTags ==
    \/ TagsCall \/ RunAdditiveScan \/ RunSubtractiveScan
    \/ AdditiveThen \/ SubtractiveThen

SpecTags == InitTags /\ [][NextTags]_vars

\* ----------------- one predicate, its fields given in one order and the other
Reversed(query) == [i \in 1..Len(query) |-> query[Len(query) + 1 - i]]

\* the caller awaits the select and makes it again with the fields reversed
ReversedCall ==
    /\ Len(ops) = 1
    /\ txns = <<>>
    /\ SelectCall("People", Reversed(ops[1].query))

NextOrder ==
    \/ QueryCall \/ ReversedCall \/ RunAdditiveScan \/ RunSubtractiveScan
    \/ AdditiveThen \/ SubtractiveThen

SpecOrder == InitQuery /\ [][NextOrder]_vars

\* ------------------------ a delete on a fixed store and a concurrent add
RaceDelete ==
    /\ ops = <<>>
    /\ \E v \in Ages :
          DeleteCall("People", <<<<"age", Entry("prim", v, NoNumObject)>>>>)

\* an add made, without awaiting the delete, at any moment after its call
ConcurrentAdd ==
    /\ ops # <<>>
    /\ \A n \in 1..Len(ops) : ops[n].kind # "add"
    /\ \E o \in CallRows, u \in BOOLEAN : AddCall("People", o, u)

NextRace ==
    \/ RaceDelete \/ ConcurrentAdd
    \/ RunAdditiveScan \/ RunSubtractiveScan \/ RunWrite \/ RunDelete
    \/ AdditiveThen \/ DeleteThen

SpecRace == InitQuery /\ [][NextRace]_vars

\* ------------------------------ the whole library with a fair engine
\* The engine runs every transaction that was created and reports on its
\* requests, and the microtask queue is drained: each of these steps is
\* taken once it stays possible.  No call is ever forced on the caller.
Fairness ==
    /\ WF_vars(RunAdditiveScan) /\ WF_vars(RunSubtractiveScan)
    /\ WF_vars(RunWrite) /\ WF_vars(RunDelete)
    /\ WF_vars(AdditiveThen) /\ WF_vars(SubtractiveThen) /\ WF_vars(DeleteThen)

FairSpec == Init /\ [][Next]_vars /\ Fairness

\* ------------------------------------- init, and init again after adds
\* the caller awaits init and upserts a row
AwaitedAdd ==
    /\ initState = "open"
    /\ Calls < MaxCalls
    /\ \E o \in CallRows : AddCall("People", o, TRUE)

NextInit ==
    \/ InitCall \/ InitAgain \/ OpenBlocked \/ UpgradeNeeded \/ UpgradeComplete
    \/ OpenSuccess \/ OpenError \/ AwaitedAdd \/ RunWrite

SpecInit == Init /\ [][NextInit]_vars

\* ------------------------------------- schemas of zero, one or two tables
TableLists ==
    LET T == {PeopleTable, PetsTable, PeopleByName}
    IN {<<>>} \cup {<<t>> : t \in T} \cup {<<t, u>> : t \in T, u \in T}

InitSchema == \E tables \in TableLists : InitWith(DatabaseSchema("MyDatabase", tables))

\* the caller awaits init and makes its calls
SchemaCall ==
    /\ initPromise \in {"resolved", "rejected"}
    /\ Calls < MaxCalls
    /\ \E t \in {"People", "Pets"} \cup BadTables :
          \/ AddCall(t, CHOOSE o \in CallRows : o.id = 1 /\ o.age = 1, TRUE)
          \/ \E a \in Part("age", CallAge) : SelectCall(t, a)
          \/ \E a \in Part("age", CallAge) : DeleteCall(t, a)

NextSchema ==
    \/ InitSchema \/ UpgradeNeeded \/ UpgradeComplete \/ OpenSuccess \/ OpenError
    \/ SchemaCall
    \/ RunAdditiveScan \/ RunSubtractiveScan \/ RunWrite \/ RunDelete
    \/ AdditiveThen \/ DeleteThen

SpecSchema == Init /\ [][NextSchema]_vars

\* ------------------------------------------------- constructing tables
MaxBuilt == 1    \* Table constructions made in one behaviour of SpecTable

\* three column objects: the second and third are distinct objects that
\* carry the same name
ColumnObjects ==
    {ColumnObject(1, "id"), ColumnObject(2, "age"), ColumnObject(3, "age")}

ColumnLists ==
    {<<>>} \cup {<<c>> : c \in ColumnObjects}
           \cup {<<c, d>> : c \in ColumnObjects, d \in ColumnObjects}

NewTable ==
    /\ Len(built) < MaxBuilt
    /\ \E name \in {"", "People"}, keyColumn \in ColumnObjects \cup {NoColumn},
          otherColumns \in ColumnLists, autoIncrement \in BOOLEAN :
          built' = Append(built, NewTableSchema(name, keyColumn, otherColumns,
                                                autoIncrement))
    /\ UNCHANGED <<instance, schema, initState, initPromise, idb, ops, txns,
                   micro>>

SpecTable == Init /\ [][NewTable]_vars

\* ============================================================ properties
Quiescent == txns = <<>> /\ micro = <<>>

SelectOps == {n \in 1..Len(ops) : ops[n].kind = "select"}

TableRows == IF "People" \in DOMAIN idb THEN idb["People"].rows ELSE {}

ResultSet(op) == {op.result.rows[i] : i \in 1..Len(op.result.rows)}

IndexedColumns == {"age", "name"}

\* the operator object of the entry of a one-entry mapping on the age column
OnAgeObject(op) ==
    /\ Len(op.query) = 1
    /\ op.query[1][1] = "age"
    /\ op.query[1][2].t = "obj"

\* the call has run to its end with the rows `expected`
SettlesWith(op, expected) ==
    /\ op.status \in {"pending", "resolved"}
    /\ Quiescent => op.status = "resolved"
    /\ op.status = "resolved" => op.result.defined /\ ResultSet(op) = expected

\* ---- C1
EqualityOnly(query) ==
    /\ Len(query) > 0
    /\ \A i \in 1..Len(query) :
          query[i][1] \in IndexedColumns /\ query[i][2].t = "prim"

MatchesAll(row, query) ==
    \A i \in 1..Len(query) : RowField(row, query[i][1]) = query[i][2].v

\* C1: a select whose predicate mapping is non-empty and holds only primitive
\* equality values on indexed columns resolves with exactly the rows of the
\* table whose fields equal all the given values.
C1_EqualitySelectExact ==
    \A n \in SelectOps :
        EqualityOnly(ops[n].query) =>
            SettlesWith(ops[n], {r \in TableRows : MatchesAll(r, ops[n].query)})

\* a two-field equality select has resolved with some rows and left others
C1_Witness ==
    \E n \in SelectOps :
        /\ EqualityOnly(ops[n].query)
        /\ Len(ops[n].query) = 2
        /\ ops[n].status = "resolved"
        /\ ResultSet(ops[n]) # {}
        /\ ResultSet(ops[n]) # TableRows

\* ---- C2
OneLowerOneUpper(o) ==
    /\ (o.gt = Undefined) # (o.gte = Undefined)
    /\ (o.lt = Undefined) # (o.lte = Undefined)
    /\ o.ne = Undefined

AboveLower(v, o) == IF o.gte # Undefined THEN v >= o.gte ELSE v > o.gt
BelowUpper(v, o) == IF o.lte # Undefined THEN v <= o.lte ELSE v < o.lt

LowerOf(o) == IF o.gte # Undefined THEN o.gte ELSE o.gt
UpperOf(o) == IF o.lte # Undefined THEN o.lte ELSE o.lt

\* the two bounds describe a key range the engine accepts
ValidBounds(o) ==
    \/ LowerOf(o) < UpperOf(o)
    \/ LowerOf(o) = UpperOf(o) /\ o.gte # Undefined /\ o.lte # Undefined

RowsBetween(o) == {r \in TableRows : AboveLower(r.age, o) /\ BelowUpper(r.age, o)}

\* C2 as stated: a field given one lower operator ($gt or $gte) and one upper
\* operator ($lt or $lte) makes select return exactly the rows whose field
\* lies between the bounds, inclusive at the lower end iff $gte and at the
\* upper end iff $lte.
C2_RangeSelectExact ==
    \A n \in SelectOps :
        OnAgeObject(ops[n]) /\ OneLowerOneUpper(ops[n].query[1][2].o) =>
            SettlesWith(ops[n], RowsBetween(ops[n].query[1][2].o))

\* C2 amended: the same where the bounds are a key range the engine accepts
\* (lower < upper, or lower = upper with both ends inclusive); for other
\* bounds select's promise is rejected with the engine's DataError and no
\* transaction is opened.
C2_RangeSelectExactOnValidBounds ==
    \A n \in SelectOps :
        OnAgeObject(ops[n]) /\ OneLowerOneUpper(ops[n].query[1][2].o) =>
            IF ValidBounds(ops[n].query[1][2].o)
              THEN SettlesWith(ops[n], RowsBetween(ops[n].query[1][2].o))
              ELSE /\ ops[n].status = "rejected"
                   /\ ops[n].error = "DataError"
                   /\ ops[n].opened = 0

\* {$gte: v, $lt: w} has resolved with a row at v while a row at w is stored
C2_Witness ==
    \E n \in SelectOps :
        /\ OnAgeObject(ops[n])
        /\ OneLowerOneUpper(ops[n].query[1][2].o)
        /\ ops[n].query[1][2].o.gte # Undefined
        /\ ops[n].query[1][2].o.lt # Undefined
        /\ ops[n].status = "resolved"
        /\ \E r \in ResultSet(ops[n]) : r.age = ops[n].query[1][2].o.gte
        /\ \E r \in TableRows : r.age = ops[n].query[1][2].o.lt

\* ---- C3
\* a row satisfies a clause when its key lies in the clause's bounds
Satisfies(row, clause) ==
    LET v == RowField(row, clause.col)
        k == clause.range
    IN CASE k.kind = "only" -> v = k.lo
         [] k.kind = "all" -> TRUE
         [] k.kind = "lower" -> IF k.loOpen THEN k.lo < v ELSE k.lo <= v
         [] k.kind = "upper" -> IF k.hiOpen THEN v < k.hi ELSE v <= k.hi
         [] k.kind = "bound" -> /\ (IF k.loOpen THEN k.lo < v ELSE k.lo <= v)
                                /\ (IF k.hiOpen THEN v < k.hi ELSE v <= k.hi)

OnIndexedColumns(clauses) ==
    \A i \in 1..Len(clauses) : clauses[i].col \in IndexedColumns

IncludedRows(op) ==
    {r \in TableRows : \A i \in 1..Len(op.additive) : Satisfies(r, op.additive[i])}

C4_NoExcludedValueReturned ==
    \A n \in SelectOps :
        ops[n].status = "resolved" /\ ops[n].result.defined =>
            \A i \in 1..Len(ops[n].subtractive) : \A r \in ResultSet(ops[n]) :
                RowField(r, ops[n].subtractive[i].col)
                    # ops[n].subtractive[i].range.lo

\* ---- C5
\* C5: $gt and $gte given with the same value v exclude the rows at v, and
\* $lt and $lte given with the same value exclude the rows at that value.
C5_TieIsExclusive ==
    \A n \in SelectOps :
        OnAgeObject(ops[n]) /\ ops[n].status = "resolved" /\ ops[n].result.defined =>
            LET o == ops[n].query[1][2].o
            IN /\ o.gt # Undefined /\ o.gt = o.gte =>
                    \A r \in ResultSet(ops[n]) : r.age # o.gt
               /\ o.lt # Undefined /\ o.lt = o.lte =>
                    \A r \in ResultSet(ops[n]) : r.age # o.lt

\* ---- C6
OnlyLower(o) ==
    /\ o.gt # Undefined \/ o.gte # Undefined
    /\ o.gt # o.gte
    /\ o.lt = Undefined /\ o.lte = Undefined /\ o.ne = Undefined

OnlyUpper(o) ==
    /\ o.lt # Undefined \/ o.lte # Undefined
    /\ o.lt # o.lte
    /\ o.gt = Undefined /\ o.gte = Undefined /\ o.ne = Undefined

\* the effective lower bound is max($gt, $gte), inclusive iff $gte gave it
AboveEffectiveLower(v, o) ==
    /\ o.gt # Undefined => v > o.gt
    /\ o.gte # Undefined => v >= o.gte

BelowEffectiveUpper(v, o) ==
    /\ o.lt # Undefined => v < o.lt
    /\ o.lte # Undefined => v <= o.lte

\* C6: a field with only lower-bound operators is scanned with the effective
\* lower bound and its inclusivity, a field with only upper-bound operators
\* with the effective upper bound; {$gte: v} alone returns the rows >= v.
C6_OneSidedBoundsExact ==
    \A n \in SelectOps :
        OnAgeObject(ops[n]) =>
            LET o == ops[n].query[1][2].o
            IN /\ OnlyLower(o) =>
                    SettlesWith(ops[n],
                        {r \in TableRows : AboveEffectiveLower(r.age, o)})
               /\ OnlyUpper(o) =>
                    SettlesWith(ops[n],
                        {r \in TableRows : BelowEffectiveUpper(r.age, o)})

\* ---- C7
NamesUnknownColumn(query) ==
    \E i \in 1..Len(query) : query[i][1] \notin IndexedColumns

\* C7: a select that names a column with no index on the table ends with its
\* promise rejected with the unknown-column error.
C7_UnknownColumnRejects ==
    \A n \in SelectOps :
        /\ ops[n].parent = 0
        /\ ops[n].opened > 0
        /\ NamesUnknownColumn(ops[n].query)
        /\ Quiescent
        => ops[n].status = "rejected" /\ ops[n].error = "UnknownColumn"

\* ---- C8, C9, C10: what a step that makes a call does
CallMade == Len(ops') > Len(ops)

NewCall == ops'[Len(ops) + 1]

\* the call was stopped by a check: nothing opened, nothing queued or stored
StoppedWith(error) ==
    /\ NewCall.status = "threw"
    /\ NewCall.error = error
    /\ NewCall.opened = 0
    /\ Len(ops') = Len(ops) + 1
    /\ txns' = txns
    /\ micro' = micro
    /\ idb' = idb

\* C8: select, add and delete called on an initialised database with a
\* (non-empty) table name that is not in the schema throw the missing-table
\* error at once, open no transaction and leave the stored rows unchanged.
C8_MissingTableThrows ==
    [][CallMade /\ instance /\ NewCall.table # ""
         /\ ~Includes(schema.tableNames, NewCall.table)
       => StoppedWith("MissingTable")]_vars

\* an add and another call were stopped for their table on an open database
C8_Witness ==
    /\ initPromise = "resolved"
    /\ \E m, n \in 1..Len(ops) :
          /\ ops[m].kind = "add" /\ ops[n].kind # "add"
          /\ ops[m].error = "MissingTable" /\ ops[n].error = "MissingTable"
          /\ ops[m].status = "threw" /\ ops[n].status = "threw"

\* C9: select, add and delete called before the database is initialised
\* throw the not-initialised error before any other check, open no
\* transaction and leave the stored rows unchanged.
C9_NotInitialisedFirst ==
    [][CallMade /\ ~instance => StoppedWith("NotInitialised")]_vars

\* a call naming no table of the schema and a call naming one were both
\* stopped for the missing initialisation
C9_Witness ==
    /\ ~instance
    /\ \E m, n \in 1..Len(ops) :
          /\ ops[m].table \in BadTables /\ ops[n].table \in GoodTables
          /\ ops[m].error = "NotInitialised" /\ ops[n].error = "NotInitialised"
          /\ ops[m].status = "threw" /\ ops[n].status = "threw"

\* C10: a call made before init's promise has resolved, the upgrade included,
\* is stopped by the not-initialised check.
C10_NoCallBeforeInitResolves ==
    [][CallMade /\ initPromise # "resolved" => StoppedWith("NotInitialised")]_vars

\* ---- C11
DeleteOps == {n \in 1..Len(ops) : ops[n].kind = "delete" /\ ops[n].status # "threw"}

\* the row matches the predicate whose clauses the select of `op` built
MatchesClauses(row, op) ==
    /\ \A i \in 1..Len(op.additive) : Satisfies(row, op.additive[i])
    /\ \A i \in 1..Len(op.subtractive) :
          RowField(row, op.subtractive[i].col) # op.subtractive[i].range.lo

\* C11: with no concurrent writer, a delete(table, q) with at least one
\* inclusion clause on indexed columns removes only rows that match q, has
\* removed every row that matches q when it resolves, and a select(table, q)
\* made after that returns an empty sequence.
C11_DeleteExact ==
    [][\A d \in DeleteOps :
          /\ Len(ops[d + 1].additive) >= 1
          /\ OnIndexedColumns(ops[d + 1].additive \o ops[d + 1].subtractive)
          => /\ TableRows' \subseteq TableRows
             /\ \A r \in TableRows \ TableRows' : MatchesClauses(r, ops[d + 1])
             /\ ops'[d].status = "resolved" =>
                   \A r \in TableRows' : ~MatchesClauses(r, ops[d + 1])
             /\ \A n \in (d + 2)..Len(ops') :
                   ops'[n].status = "resolved" =>
                       ops'[n].result.defined /\ ops'[n].result.rows = <<>>
      ]_vars

\* ---- C12
\* C12: when the select that delete runs has failed, the promise delete
\* returned ends rejected.
C12_DeleteSurfacesFailure ==
    \A d \in DeleteOps :
        ops[d + 1].status = "rejected" /\ Quiescent => ops[d].status = "rejected"

\* ---- C13, C14: the step in which the write transaction of an add runs
PutStep == txns # <<>> /\ Head(txns).what = "put" /\ txns' = Tail(txns)

InsertStep == txns # <<>> /\ Head(txns).what = "add" /\ txns' = Tail(txns)

AddOps == {n \in 1..Len(ops) : ops[n].kind = "add"}

\* C13: an add with upsert = true replaces the row of its key and never makes
\* a second row with the key; made again with the same payload it leaves the
\* store as the first call left it, with exactly one row of the key.
C13_UpsertIdempotent ==
    [][PutStep =>
          /\ ops'[Head(txns).op].status = "resolved"
          /\ TableRows' = {r \in TableRows : r.id # Head(txns).object.id}
                              \cup {Head(txns).object}
          /\ Cardinality({r \in TableRows' : r.id = Head(txns).object.id}) = 1
          /\ Head(txns).object \in TableRows => TableRows' = TableRows
      ]_vars

\* the same payload was upserted twice and the store holds that one row
C13_Witness ==
    \E m, n \in AddOps :
        /\ m < n
        /\ ops[m].upsert /\ ops[n].upsert
        /\ ops[m].object = ops[n].object
        /\ ops[m].status = "resolved" /\ ops[n].status = "resolved"
        /\ TableRows = {ops[m].object}

\* C14: an add with upsert = false on a key the table already holds ends
\* rejected, and the row of that key and every other row stay as they were.
C14_InsertCollisionRejects ==
    [][InsertStep /\ (\E r \in TableRows : r.id = Head(txns).object.id) =>
          /\ ops'[Head(txns).op].status = "rejected"
          /\ idb' = idb
      ]_vars

\* an insert of another payload was rejected for the key of a stored row
C14_Witness ==
    \E n \in AddOps :
        /\ ~ops[n].upsert
        /\ ops[n].status = "rejected"
        /\ ops[n].error = "ConstraintError"
        /\ ops[n].object \notin TableRows
        /\ \E r \in TableRows : r.id = ops[n].object.id

\* ---- C15, C16, C17
MultiOps == {m \in 1..Len(ops) : ops[m].kind = "multiAdd"}

\* the adds of multiAdd m
AddsOf(m) == Children(ops, m)

DistinctKeys(m) ==
    \A i, j \in AddsOf(m) : i # j => ops[i].object.id # ops[j].object.id

WritePending(n) == \E i \in 1..Len(txns) : txns[i].op = n

\* C15: when multiAdd's promise is resolved, the add of every row has
\* succeeded and its write transaction has completed, and the rows (with
\* distinct keys) are all in the table.
C15_MultiAddResolvesAfterAll ==
    \A m \in MultiOps :
        ops[m].status = "resolved" =>
            \A n \in AddsOf(m) :
                /\ ops[n].status = "resolved"
                /\ ~WritePending(n)
                /\ DistinctKeys(m) => ops[n].object \in TableRows

\* a multiAdd of two rows with distinct keys has resolved
C15_Witness ==
    \E m \in MultiOps :
        /\ ops[m].status = "resolved"
        /\ Cardinality(AddsOf(m)) = 2
        /\ DistinctKeys(m)
        /\ \A n \in AddsOf(m) : ops[n].object \in TableRows

\* C16: after a multiAdd of rows with distinct keys has resolved, a select
\* with an always-true range over the key column returns all the rows.
C16_SelectOnKeyReturnsAll ==
    \A m \in MultiOps : \A n \in SelectOps :
        /\ ops[m].status = "resolved"
        /\ DistinctKeys(m)
        /\ ops[n].query = AlwaysTrue("id")
        /\ Quiescent
        => /\ ops[n].status = "resolved"
           /\ \A a \in AddsOf(m) : ops[a].object \in ResultSet(ops[n])

\* C17: when one add of a multiAdd has failed, multiAdd's promise ends
\* rejected, and the rows of the adds of the same multiAdd that succeeded
\* are stored.
C17_NoRollbackOfSiblings ==
    \A m \in MultiOps :
        (\E f \in AddsOf(m) : ops[f].status = "rejected") =>
            /\ micro = <<>> => ops[m].status = "rejected"
            /\ \A n \in AddsOf(m) :
                  ops[n].status = "resolved" => ops[n].object \in TableRows

\* an insert of two rows: one collided, the other is stored
C17_Witness ==
    \E m \in MultiOps :
        /\ ops[m].status = "rejected"
        /\ \E f \in AddsOf(m) : ops[f].error = "ConstraintError"
        /\ \E n \in AddsOf(m) :
              /\ ~ops[n].upsert
              /\ ops[n].status = "resolved"
              /\ ops[n].object \in TableRows

\* ---- C18
\* C18: a select whose predicate holds only $ne clauses settles with the rows
\* of the table whose fields differ from the excluded values.
C18_ExclusionOnlySelect ==
    \A n \in SelectOps :
        /\ ops[n].opened > 0
        /\ ops[n].additive = <<>>
        /\ ops[n].subtractive # <<>>
        /\ Quiescent
        => /\ ops[n].status = "resolved"
           /\ ResultSet(ops[n]) = {r \in TableRows : MatchesClauses(r, ops[n])}

\* ---- C19
\* the select calls made in this step that got as far as their scans
NewScans ==
    {n \in (Len(ops) + 1)..Len(ops') :
        ops'[n].kind = "select" /\ ops'[n].status = "pending"}

TxnsOf(n, queue) == {i \in 1..Len(queue) : queue[i].op = n}

\* no select has its result before all of its scans have completed
JoinedBeforeResult ==
    \A n \in 1..Len(ops') :
        ops'[n].kind = "select" /\ ops'[n].status = "resolved" =>
            AllResolved(ops'[n].addP) /\ AllResolved(ops'[n].subP)

\* C19 as stated: one select call opens exactly one read-only transaction,
\* shared by all of its scans, and its result is computed only after every
\* scan of the call has completed.
C19_OneSharedTransaction ==
    [][/\ \A n \in NewScans :
             /\ Cardinality(TxnsOf(n, txns')) = 1
             /\ \A i \in TxnsOf(n, txns') : txns'[i].mode = "readonly"
       /\ JoinedBeforeResult
      ]_vars

\* C19 amended: one select call opens exactly two read-only transactions,
\* one for its inclusion scans and one for its exclusion scans, and its
\* result is computed only after every scan of the call has completed.
C19_TwoReadOnlyTransactions ==
    [][/\ \A n \in NewScans :
             /\ Cardinality(TxnsOf(n, txns')) = 2
             /\ Len(txns') = Len(txns) + 2
             /\ \A i \in TxnsOf(n, txns') : txns'[i].mode = "readonly"
             /\ \E i, j \in TxnsOf(n, txns') :
                   txns'[i].what = "additive" /\ txns'[j].what = "subtractive"
       /\ JoinedBeforeResult
      ]_vars

\* a select with inclusion and exclusion scans has its result
C19_Witness ==
    \E n \in SelectOps :
        /\ ops[n].status = "resolved"
        /\ Len(ops[n].addP) >= 1
        /\ Len(ops[n].subP) >= 1
        /\ ops[n].opened = 2

\* ---- C20
ScansOf(op) == op.addP \o op.subP

\* some scan of the call has been taken and some scan of it has not yet
MidScan(op) ==
    /\ \E i \in 1..Len(ScansOf(op)) : ScansOf(op)[i].state = "resolved"
    /\ \E i \in 1..Len(ScansOf(op)) : ScansOf(op)[i].state = "pending"

\* the rows of `rows` in the range of every inclusion clause, less those in
\* the range of every exclusion clause
MergeOn(rows, op) ==
    {r \in rows : \A i \in 1..Len(op.additive) : Satisfies(r, op.additive[i])}
    \ (IF op.subtractive = <<>> THEN {}
       ELSE {r \in rows : \A i \in 1..Len(op.subtractive) :
                             Satisfies(r, op.subtractive[i])})

\* C20: in every interleaving of a select with add and delete calls, no
\* write commits between two scans of the select, and its result is the
\* merge of its scans all taken on the one state of the table it resolves in.
C20_ScansOnOneState ==
    [][/\ TableRows' # TableRows => \A n \in SelectOps : ~MidScan(ops[n])
       /\ \A n \in SelectOps :
             /\ ops[n].status = "pending"
             /\ ops'[n].status = "resolved"
             /\ ops'[n].result.defined
             => /\ TableRows' = TableRows
                /\ ResultSet(ops'[n]) = MergeOn(TableRows, ops[n])
      ]_vars

\* a write is queued while a select is between its scans
C20_Witness ==
    \E n \in SelectOps :
        /\ MidScan(ops[n])
        /\ \E i \in 1..Len(txns) : txns[i].mode = "readwrite"

\* ---- C22
BuiltTables == {n \in 1..Len(built) : built[n].error = "none"}

\* C22: constructing a Table without a name or without a key column fails
\* with an error and yields no table; constructing one whose other-columns
\* list contains the key column or the same column entry twice only emits a
\* warning and still yields a table with the given name, key column, other
\* columns and autoIncrement setting.
C22_TableConstructor ==
    \A n \in 1..Len(built) :
        LET name == built[n].args[1]
            keyColumn == built[n].args[2]
            otherColumns == built[n].args[3]
        IN IF name = "" \/ keyColumn = NoColumn
             THEN built[n].error # "none" /\ built[n].table = <<>>
             ELSE /\ built[n].error = "none"
                  /\ Len(built[n].table) = 1
                  /\ built[n].table[1].name = name
                  /\ built[n].table[1].keyColumn = keyColumn
                  /\ built[n].table[1].otherColumns = otherColumns
                  /\ built[n].table[1].autoIncrement = built[n].args[4]
                  /\ (\/ keyColumn \in Elements(otherColumns)
                      \/ \E i, j \in 1..Len(otherColumns) :
                            i # j /\ otherColumns[i] = otherColumns[j])
                     => built[n].warned

\* a table was built with a warning: its key column is among its other
\* columns, and it is set to auto-increment
C22_Witness ==
    \E n \in BuiltTables :
        /\ built[n].warned
        /\ built[n].table[1].keyColumn \in Elements(built[n].table[1].otherColumns)
        /\ Len(built[n].table[1].otherColumns) = 2
        /\ built[n].table[1].autoIncrement

\* ---- C21
\* C21: when the engine reports the open request as blocked by another open
\* instance, init fails: its promise is rejected with a connection error, as
\* it is when the engine reports an open error.
C21_BlockedRejectsInit ==
    /\ initState = "blocked" => initPromise = "rejected"
    /\ initState = "failed" => initPromise = "rejected"

\* ---- C30
InitStep == initState' = "opening" /\ initState # "opening"

InitResolves == initPromise = "pending" /\ initPromise' = "resolved"

\* the store of every table of the schema, as upgrade creates it
EveryTableFresh(db, s) ==
    /\ DOMAIN db = Elements(s.tableNames)
    /\ \A n \in DOMAIN db :
          /\ db[n].rows = {}
          /\ db[n].indexes = {c.name : c \in Elements(s.tableMap[n].otherColumns)}
          /\ s.tableMap[n].keyColumn.name \notin db[n].indexes
          /\ db[n].keyPath = s.tableMap[n].keyColumn.name

\* C30: every init call deletes the stored database of the schema's name
\* before it is opened, so the upgrade runs in each init; when init's promise
\* resolves the handle is set and every table of the schema exists with one
\* index per other column, none for the key column, and no row, whatever
\* had been stored before.
C30_InitStartsEmpty ==
    [][/\ InitStep => idb' = <<>>
       /\ InitResolves =>
             /\ initState = "upgraded"
             /\ instance'
             /\ EveryTableFresh(idb', schema')
      ]_vars

\* init has resolved on an empty table after an upsert had stored a row
C30_Witness ==
    /\ initPromise = "resolved"
    /\ TableRows = {}
    /\ \E n \in AddOps : ops[n].status = "resolved"

\* ---- C23
DistinctNames(tables) ==
    \A i, j \in 1..Len(tables) : i # j => tables[i].name # tables[j].name

\* C23: for tables with pairwise distinct names, tableNames lists the names
\* in the order of the tables, and tableMap maps each name to its table and
\* has no other entry; add, select and delete accept exactly the table names
\* in tableNames.
C23_NamesAndMap ==
    [][/\ DistinctNames(schema'.tables) =>
             /\ Len(schema'.tableNames) = Len(schema'.tables)
             /\ \A i \in 1..Len(schema'.tables) :
                   /\ schema'.tableNames[i] = schema'.tables[i].name
                   /\ schema'.tableMap[schema'.tables[i].name] = schema'.tables[i]
             /\ DOMAIN schema'.tableMap = {t.name : t \in Elements(schema'.tables)}
       /\ CallMade /\ instance =>
             (NewCall.error \notin {"MissingTable", "NoTableDefined"}
                 <=> Includes(schema.tableNames, NewCall.table))
      ]_vars

\* on a schema of Pets and People, in this order, a row was added to Pets
C23_Witness ==
    /\ schema.tableNames = <<"Pets", "People">>
    /\ schema.tableMap["Pets"] = PetsTable
    /\ ops # <<>>
    /\ ops[1].kind = "add" /\ ops[1].table = "Pets" /\ ops[1].status = "resolved"
    /\ ops[1].object \in idb["Pets"].rows

\* ---- C24
\* the rows that every batch of `promises` delivered
InEveryBatch(promises) ==
    {r \in AllRows : \A i \in 1..Len(promises) : Includes(promises[i].value, r)}

Outcome(op) ==
    <<op.status, op.error, op.result.defined, ResultSet(op)>>

\* C25: the set of rows select returns does not depend on the order in which
\* the fields are given in the predicate mapping.
C25_FieldOrderIrrelevant ==
    Len(ops) = 2 /\ Quiescent => Outcome(ops[1]) = Outcome(ops[2])

\* a two-field predicate and its reverse have both returned the same rows,
\* some but not all rows of the table
C25_Witness ==
    /\ Len(ops) = 2
    /\ Len(ops[1].query) = 2
    /\ ops[2].query # ops[1].query
    /\ ops[1].status = "resolved" /\ ops[2].status = "resolved"
    /\ ResultSet(ops[1]) = ResultSet(ops[2])
    /\ ResultSet(ops[1]) # {}
    /\ ResultSet(ops[1]) # TableRows

\* ---- C27
\* C27: a select with an empty predicate mapping issues no index scan and
\* resolves with undefined; it neither returns all rows nor fails.
C27_EmptyPredicateResolvesUndefined ==
    \A n \in SelectOps :
        ops[n].query = <<>> /\ ops[n].status # "threw" =>
            /\ ops[n].addP = <<>> /\ ops[n].subP = <<>>
            /\ ops[n].status \in {"pending", "resolved"}
            /\ ops[n].fault = "none"
            /\ micro = <<>> => ops[n].status = "resolved"
            /\ ops[n].status = "resolved" =>
                  ~ops[n].result.defined /\ ops[n].result.rows = <<>>

\* select(table, {}) has resolved with undefined on a table that holds rows
C27_Witness ==
    \E n \in SelectOps :
        /\ ops[n].query = <<>>
        /\ ops[n].status = "resolved"
        /\ ~ops[n].result.defined
        /\ TableRows # {}

OpSlots == 1..(2 * MaxCalls)

\* C28: with an engine that eventually reports on every request and
\* transaction, every promise returned by select or delete is eventually
\* resolved or rejected, whatever the predicate mapping (empty, $ne only,
\* or naming a field without an index).
C28_EveryPromiseSettles ==
    \A n \in OpSlots :
        (/\ n <= Len(ops)
         /\ ops[n].kind \in {"select", "delete"}
         /\ ops[n].status = "pending")
        ~> (n <= Len(ops) /\ ops[n].status \in {"resolved", "rejected"})

\* ---- C29
\* the step in which one delete transaction of a delete runs
DeleteStep == txns # <<>> /\ Head(txns).what = "delete" /\ txns' = Tail(txns)

\* C29: in every interleaving of a delete(table, q) with concurrent adds,
\* each row the delete removes matches q at the moment its delete
\* transaction executes: a row that an upsert overwrote after the delete's
\* select, so that it no longer matches q, is not removed.
C29_RemovedRowsMatchAtDelete ==
    [][DeleteStep =>
          \A r \in TableRows \ TableRows' :
              MatchesClauses(r, ops[Head(txns).op + 1])
      ]_vars

====
